---------------------------- MODULE Spec2Model ----------------------------
(***************************************************************************)
(* A model of ledger-service: the four HTTP handlers of package handlers   *)
(* (CreateCustomer, CreateTransaction, GetBalance, GetTransactions), run   *)
(* by concurrent request goroutines that all use the one pgx connection    *)
(* main() opens and hands to handlers.InitDB, against the two tables of    *)
(* migrations/init.sql.                                                    *)
(*                                                                         *)
(* Money.  The handlers compute in float64, the tables keep DECIMAL(15,2). *)
(* An amount is modelled as an integer number of 1/Resolution cents, so    *)
(* that amounts finer than one cent exist; NumericRound is the rounding    *)
(* the store applies when it keeps a value in a DECIMAL(15,2) column.      *)
(* Binary floating point error is not modelled: arithmetic is exact.       *)
(*                                                                         *)
(* Store.  There is one connection, hence one database session.  Each      *)
(* statement a handler issues is one atomic step of that session; the      *)
(* statements of different handlers interleave.  customers/transactions    *)
(* are the committed tables, txCustomers/txTransactions are the tables as  *)
(* the session sees them (its uncommitted writes included).                *)
(***************************************************************************)
EXTENDS Integers, Sequences, FiniteSets, TLC

(***************************************************************************)
(* Bounds of the model.                                                    *)
(***************************************************************************)
NumHandlers == 2      \* request goroutines that can be in flight together
MaxCustomers == 2     \* customers that can be created
MaxRequests == 3      \* requests accepted in one behaviour
MaxFaults == 1        \* calls on the connection that fail (busy or broken) in one behaviour
MaxTime == 1          \* the latest time the store's clock shows
Resolution == 4       \* model units per cent (0.01)

Handlers == 1..NumHandlers
CustIds == 1..MaxCustomers

\* uuid.Nil, the zero value a request without customer_id binds to.
NilUUID == 0
\* A well-formed id that uuid.New never returned to a client.
UnknownUUID == MaxCustomers + 1
\* c.Param of a name the route does not define: the empty string.
EmptyParam == -1

VARIABLES
    customers,        \* committed table customers: id -> [name, balance]
    transactions,     \* committed table transactions: sequence of rows, in insertion order
    txCustomers,      \* table customers as the session sees it
    txTransactions,   \* table transactions as the session sees it
    txStatus,         \* the session's transaction status: "I" idle, "T" in transaction, "E" failed transaction
    rowLocks,         \* customers rows locked FOR UPDATE by the session's transaction
    txStart,          \* start time of the session's transaction (CURRENT_TIMESTAMP inside it)
    connClosed,       \* the connection has been closed
    now,              \* the store's clock when a statement last read it (BEGIN, COMMIT, a statement outside a transaction)
    pc,               \* per handler: the statement it issues next
    req,              \* per handler: the request it serves
    local,            \* per handler: the local variables of the handler function
    resp,             \* per handler: the response written with c.JSON
    pre,              \* per handler: the committed tables when the request arrived
    nextCust,         \* customers ids generated so far (uuid.New)
    nextTxn,          \* transaction ids generated so far (uuid.New)
    nreq,             \* requests accepted so far
    faults,           \* calls on the connection that failed so far (busy or broken)
    opening,          \* per created customer: the balance stored at creation
    calls,            \* the CreateTransaction calls that returned success or insufficient balance, in order of return
    aborted           \* a CreateTransaction call that began its unit of work returned another response

vars == <<customers, transactions, txCustomers, txTransactions, txStatus, rowLocks,
          txStart, connClosed, now, pc, req, local, resp, pre, nextCust, nextTxn,
          nreq, faults, opening, calls, aborted>>

handlerVars == <<pc, req, local, resp, pre>>

(***************************************************************************)
(* The tables of migrations/init.sql.                                      *)
(***************************************************************************)
\* A value kept in a DECIMAL(15,2) column: rounded to whole cents, half away from zero.
NumericRound(x) ==
    IF x >= 0 THEN ((2 * x + Resolution) \div (2 * Resolution)) * Resolution
    ELSE 0 - (((2 * (0 - x) + Resolution) \div (2 * Resolution)) * Resolution)

\* customers.balance: CHECK (balance >= 0), on the value the column keeps.
BalanceCheck(balance) == NumericRound(balance) >= 0

\* transactions.amount: CHECK (amount > 0), on the value the column keeps.
AmountCheck(amount) == NumericRound(amount) > 0

\* transactions.type: CHECK (type IN ('credit', 'debit')).
TypeCheck(type) == type \in {"credit", "debit"}

\* A column customer_id without REFERENCES.
ForeignKeyUnchecked(tbl, customer_id) == customer_id = customer_id

\* transactions.customer_id REFERENCES customers(id), against the rows the session sees.
ForeignKeyCheck(tbl, customer_id) == customer_id \in DOMAIN tbl

EmptyCustomers == [c \in {} |-> [name |-> "", balance |-> 0]]

\* The rows of a transactions table owned by one customer, in insertion order.
OwnedBy(tbl, customer_id) == SelectSeq(tbl, LAMBDA t : t.customer_id = customer_id)

(***************************************************************************)
(* The session behind the one connection (main.go: pgx.Connect, InitDB).   *)
(* D is the store as a record; a session operator maps it to the store     *)
(* after the statement.                                                    *)
(***************************************************************************)
D == [customers |-> customers, transactions |-> transactions,
      txCustomers |-> txCustomers, txTransactions |-> txTransactions,
      txStatus |-> txStatus, rowLocks |-> rowLocks, txStart |-> txStart,
      connClosed |-> connClosed]

SetD(d) ==
    /\ customers' = d.customers
    /\ transactions' = d.transactions
    /\ txCustomers' = d.txCustomers
    /\ txTransactions' = d.txTransactions
    /\ txStatus' = d.txStatus
    /\ rowLocks' = d.rowLocks
    /\ txStart' = d.txStart
    /\ connClosed' = d.connClosed

storeVars == <<customers, transactions, txCustomers, txTransactions, txStatus,
               rowLocks, txStart, connClosed>>

\* BEGIN.  Inside a transaction the store only warns and the transaction goes on;
\* inside a failed transaction the statement is refused.
SrvBegin(d, t) ==
    IF d.txStatus = "I"
    THEN [d |-> [d EXCEPT !.txStatus = "T", !.txStart = t], err |-> FALSE]
    ELSE [d |-> d, err |-> d.txStatus = "E"]

\* The end of the session's transaction with its writes dropped.
Discard(d) ==
    [d EXCEPT !.txCustomers = d.customers, !.txTransactions = d.transactions,
              !.txStatus = "I", !.rowLocks = {}, !.txStart = 0]

\* COMMIT.  A transaction's writes become the committed tables; a failed transaction
\* is rolled back (command tag ROLLBACK); outside a transaction the store only warns.
SrvCommit(d) ==
    IF d.txStatus = "T"
    THEN [d |-> [d EXCEPT !.customers = d.txCustomers, !.transactions = d.txTransactions,
                          !.txStatus = "I", !.rowLocks = {}, !.txStart = 0],
          tag |-> "COMMIT"]
    ELSE IF d.txStatus = "E"
    THEN [d |-> Discard(d), tag |-> "ROLLBACK"]
    ELSE [d |-> d, tag |-> "COMMIT"]

\* ROLLBACK.  Outside a transaction the store only warns.
SrvRollback(d) == Discard(d)

\* The connection is closed: the store drops the session and its transaction.
SrvClose(d) == [Discard(d) EXCEPT !.connClosed = TRUE]

\* A writing statement that leaves the tables as (cust, txns) when `valid` (no
\* constraint is violated).  Outside a transaction it commits at once; a violated
\* constraint fails the statement and, inside a transaction, the transaction.
SrvWrite(d, cust, txns, valid) ==
    IF d.txStatus = "E" THEN [d |-> d, err |-> TRUE]
    ELSE IF ~valid
    THEN [d |-> [d EXCEPT !.txStatus = IF d.txStatus = "T" THEN "E" ELSE "I"], err |-> TRUE]
    ELSE IF d.txStatus = "T"
    THEN [d |-> [d EXCEPT !.txCustomers = cust, !.txTransactions = txns], err |-> FALSE]
    ELSE [d |-> [d EXCEPT !.txCustomers = cust, !.txTransactions = txns,
                          !.customers = cust, !.transactions = txns],
          err |-> FALSE]

\* SELECT ... FOR UPDATE of a customers row: the row lock is the transaction's, and a
\* lock of the session's own transaction never makes the session wait.
SrvLock(d, customer_id) ==
    IF d.txStatus = "T" /\ customer_id \in DOMAIN d.txCustomers
    THEN [d EXCEPT !.rowLocks = d.rowLocks \cup {customer_id}]
    ELSE d

\* DEFAULT CURRENT_TIMESTAMP: the start time of the current transaction, or of the
\* statement when there is none.
CurrentTimestamp(d, t) == IF d.txStatus = "T" THEN d.txStart ELSE t

\* A clock that can show any time.
ClockBackwards == 0..MaxTime

\* The times the store's clock can show to a statement: it never runs backwards.
Clock == {t \in now..(now + 1) : t <= MaxTime}

\* The statement read the clock at time t, if it reached the store outside a transaction.
ReadClock(o, t) == now' = IF o = "ok" /\ ~connClosed /\ txStatus = "I" THEN t ELSE now

(***************************************************************************)
(* Requests, responses and the handlers' local variables.                  *)
(***************************************************************************)
NameInputs == {"", "John Doe"}
InitialBalanceInputs == {0 - Resolution, 0, Resolution}
BalanceInputs == {0 - Resolution, 0, Resolution}
CustomerIdInputs == {NilUUID, UnknownUUID} \cup CustIds
TypeInputs == {"credit", "debit", "refund"}
AmountInputs == {0 - Resolution, 0, 1, Resolution \div 2, Resolution}
CurrencyInputs == {"", "XXX"}
PageInputs == {EmptyParam, 0, 2}
PageSizeInputs == {EmptyParam, 0, 1}

\* has_initial_balance: the JSON body carries the key initial_balance.  A float64
\* field of the struct the body is bound to is 0 for a missing key, so the handler
\* sees initial_balance only.
NoReq ==
    [op |-> "none", name |-> "", has_initial_balance |-> FALSE, initial_balance |-> 0,
     balance |-> 0,
     customer_id |-> NilUUID, type |-> "", amount |-> 0,
     currency |-> "", page |-> EmptyParam, page_size |-> EmptyParam]

\* Of the requests that fail in the same way for the same reason, whatever their
\* other fields hold, one is kept: a request with an empty name has no balances, a
\* request with a bad type or amount, a bad page or page size, or uuid.Nil as its
\* customer has its other fields fixed.
CreateCustomerRequests ==
    {r \in {[NoReq EXCEPT !.op = "CreateCustomer", !.name = n, !.has_initial_balance = p,
                          !.initial_balance = i, !.balance = b] :
                n \in NameInputs, p \in BOOLEAN, i \in InitialBalanceInputs,
                b \in BalanceInputs} :
        /\ r.name = "" => ~r.has_initial_balance /\ r.balance = 0
        /\ ~r.has_initial_balance => r.initial_balance = 0}

CreateTransactionRequests ==
    {r \in {[NoReq EXCEPT !.op = "CreateTransaction", !.customer_id = c, !.type = t,
                          !.amount = a] :
                c \in CustomerIdInputs, t \in TypeInputs, a \in AmountInputs} :
        /\ r.type = "refund" => r.amount = Resolution /\ r.customer_id = UnknownUUID
        /\ r.amount <= 0 => r.customer_id = UnknownUUID
        /\ r.amount < 0 => r.type = "debit"
        /\ r.customer_id = NilUUID => r.type = "credit" /\ r.amount = Resolution}

GetBalanceRequests ==
    {[NoReq EXCEPT !.op = "GetBalance", !.customer_id = c, !.currency = k] :
        c \in {NilUUID, 1}, k \in CurrencyInputs}

GetTransactionsRequests ==
    {r \in {[NoReq EXCEPT !.op = "GetTransactions", !.customer_id = c, !.page = p,
                          !.page_size = ps] :
                c \in CustomerIdInputs, p \in PageInputs, ps \in PageSizeInputs} :
        /\ r.page = 0 => r.page_size = EmptyParam /\ r.customer_id = UnknownUUID
        /\ r.page_size = 0 => r.page = EmptyParam /\ r.customer_id = UnknownUUID
        /\ r.customer_id = NilUUID => r.page = EmptyParam /\ r.page_size = EmptyParam}

NoLocal ==
    [currentBalance |-> 0, newBalance |-> 0, txClosed |-> FALSE, cancelled |-> FALSE, id |-> 0,
     page |-> 0, pageSize |-> 0, totalCount |-> 0]

NoResp ==
    [status |-> 0, error |-> "", id |-> 0, balance |-> 0, rows |-> <<>>,
     totalCount |-> 0, page |-> 0, pageSize |-> 0, totalPages |-> 0]

NoPre == [customers |-> EmptyCustomers, transactions |-> <<>>]

\* c.JSON(status, ErrorResponse{Error: error})
ErrorResponse(status, error) == [NoResp EXCEPT !.status = status, !.error = error]

(***************************************************************************)
(* The routes of main.go and gin's path parameters.                        *)
(***************************************************************************)
\* router.GET("/customers/:customer_id/balance", ...) and
\* router.GET("/customers/:customer_id/transactions", ...): the one path parameter.
RouteParams(r) == [customer_id |-> r.customer_id]

\* c.Param(key): the empty string for a name the route does not define.
Param(r, key) ==
    IF key \in DOMAIN RouteParams(r) THEN RouteParams(r)[key] ELSE EmptyParam

\* uuid.Parse fails on the empty string.
UuidParseOk(s) == s # EmptyParam

(***************************************************************************)
(* One statement on the shared connection, as the calling handler sees it. *)
(*   "ok"     the statement reaches the store;                             *)
(*   "busy"   another goroutine is using the connection: the call returns  *)
(*            an error and the store sees nothing;                         *)
(*   "io"     the connection fails: the call returns an error, the         *)
(*            connection is closed and the store sees nothing;             *)
(*   "cancelled" the request's context is done: the call returns an error  *)
(*            and the store sees nothing;                                  *)
(*   "closed" the connection was closed before.                            *)
(***************************************************************************)
\* The handler is between two statements it issues on the connection.
UsesConn(g) ==
    \/ pc[g] \in {"ct_read", "ct_update", "ct_insert", "ct_commit", "gt_count", "gt_query"}
    \/ pc[g] = "ct_defer" /\ ~local[g].txClosed

\* A store that never answers a COMMIT.
OutcomesUnanswered(h) == IF pc[h] = "ct_commit" THEN {} ELSE {"ok"}

Outcomes(h) ==
    IF connClosed THEN {"closed"}
    ELSE IF local[h].cancelled THEN {"cancelled"}
    ELSE {"ok"}
         \cup (IF faults < MaxFaults /\ \E g \in Handlers \ {h} : UsesConn(g)
               THEN {"busy"} ELSE {})
         \cup (IF faults < MaxFaults THEN {"io"} ELSE {})

Fault(o) == faults' = faults + (IF o \in {"io", "busy"} THEN 1 ELSE 0)

\* A store whose session drops its transaction at every statement.
UnreachedDiscard(d, o) == IF o = "io" THEN SrvClose(d) ELSE Discard(d)

\* The store after a statement that did not reach it.
Unreached(d, o) == IF o = "io" THEN SrvClose(d) ELSE d

(***************************************************************************)
(* A request arrives: gin runs the handler in a goroutine of its own, and  *)
(* the handler starts.  Goroutines have no identity: the request takes the *)
(* first idle one.  A client names a customer by an id a CreateCustomer    *)
(* call generated, or by an id no call generated.                          *)
(***************************************************************************)
Accept(h, r) ==
    /\ pc[h] = "idle"
    /\ r.customer_id \in CustIds => r.customer_id <= nextCust
    /\ \A g \in Handlers : g < h => pc[g] # "idle"
    /\ nreq < MaxRequests
    /\ req' = [req EXCEPT ![h] = r]
    /\ pre' = [pre EXCEPT ![h] = [customers |-> customers, transactions |-> transactions]]
    /\ nreq' = nreq + 1

\* The handler has returned and its response is delivered.
Return(h) ==
    /\ pc[h] = "done"
    /\ pc' = [pc EXCEPT ![h] = "idle"]
    /\ req' = [req EXCEPT ![h] = NoReq]
    /\ local' = [local EXCEPT ![h] = NoLocal]
    /\ resp' = [resp EXCEPT ![h] = NoResp]
    /\ pre' = [pre EXCEPT ![h] = NoPre]
    /\ UNCHANGED <<storeVars, now, nextCust, nextTxn, nreq, faults, opening, calls, aborted>>


(***************************************************************************)
(* CreateCustomer: POST /customers.  One statement, issued on the          *)
(* connection itself (db.Exec), so inside whatever transaction the session *)
(* is in.                                                                  *)
(***************************************************************************)
\* A binding that accepts a body without a name.
BindCustomerAny(r) == r.op = "CreateCustomer"

\* ShouldBindJSON(&customer): name is `binding:"required"`.
BindCustomer(r) == r.name # ""

\* Use initial_balance if provided, otherwise use balance.
OpeningBalance(r) == IF r.initial_balance = 0 THEN r.balance ELSE r.initial_balance

\* INSERT INTO customers (id, name, balance) VALUES ($1, $2, $3)
InsertCustomer(d, id, name, balance) ==
    SrvWrite(d,
             [c \in DOMAIN d.txCustomers \cup {id} |->
                 IF c = id THEN [name |-> name, balance |-> NumericRound(balance)]
                 ELSE d.txCustomers[c]],
             d.txTransactions,
             id \notin DOMAIN d.txCustomers /\ BalanceCheck(balance))

CreateCustomer(h, r) ==
    /\ Accept(h, r)
    /\ nextCust < MaxCustomers
    /\ pc' = [pc EXCEPT ![h] = "done"]
    /\ UNCHANGED <<now, local, nextTxn, calls, aborted>>
    /\ LET balance == OpeningBalance(r)
           id == nextCust + 1
       IN  IF ~BindCustomer(r)
           THEN /\ resp' = [resp EXCEPT ![h] = ErrorResponse(400,
                       "Invalid input: Name is required and balance must be non-negative")]
                /\ UNCHANGED <<storeVars, nextCust, faults, opening>>
           ELSE IF balance < 0
           THEN /\ resp' = [resp EXCEPT ![h] = ErrorResponse(400,
                       "Invalid input: Balance must be non-negative")]
                /\ UNCHANGED <<storeVars, nextCust, faults, opening>>
           ELSE \E o \in Outcomes(h) :
                LET w == IF o = "ok" THEN InsertCustomer(D, id, r.name, balance)
                         ELSE [d |-> Unreached(D, o), err |-> TRUE]
                IN  /\ SetD(w.d)
                    /\ Fault(o)
                    /\ nextCust' = id
                    /\ IF w.err
                       THEN /\ resp' = [resp EXCEPT ![h] =
                                   ErrorResponse(500, "Failed to create customer")]
                            /\ UNCHANGED opening
                       ELSE /\ resp' = [resp EXCEPT ![h] =
                                   [NoResp EXCEPT !.status = 201, !.id = id, !.balance = balance]]
                            /\ opening' = [c \in DOMAIN opening \cup {id} |->
                                   IF c = id THEN NumericRound(balance) ELSE opening[c]]

(***************************************************************************)
(* CreateTransaction: POST /transactions.  One action per statement of the *)
(* unit of work: Begin, the locked read, the balance update, the journal   *)
(* insert, Commit, and the deferred Rollback.                              *)
(***************************************************************************)
\* A binding that accepts every request body.
BindTransactionAny(r) == r.op = "CreateTransaction"

\* ShouldBindJSON(&transaction): type is `required,oneof=credit debit`, amount `required,gt=0`.
BindTransaction(r) == r.type \in {"credit", "debit"} /\ r.amount > 0

\* db.Begin.  A failed Begin closes the connection; the handler returns before the
\* Rollback is deferred.
CtBegin(h, r) ==
    /\ Accept(h, r)
    /\ UNCHANGED <<nextCust, nextTxn, opening, calls>>
    /\ IF ~BindTransaction(r)
       THEN /\ resp' = [resp EXCEPT ![h] = ErrorResponse(400,
                   "Invalid input: customer_id, type (credit/debit), and amount (> 0) are required")]
            /\ pc' = [pc EXCEPT ![h] = "done"]
            /\ UNCHANGED <<storeVars, now, local, faults, aborted>>
       ELSE \E o \in Outcomes(h), t \in Clock :
            LET b == IF o = "ok" THEN SrvBegin(D, t) ELSE [d |-> D, err |-> TRUE]
            IN  /\ Fault(o)
                /\ ReadClock(o, t)
                /\ aborted' = (aborted \/ b.err)
                /\ IF b.err
                   THEN /\ SetD(SrvClose(b.d))
                        /\ resp' = [resp EXCEPT ![h] =
                               ErrorResponse(500, "Failed to start transaction")]
                        /\ pc' = [pc EXCEPT ![h] = "done"]
                        /\ UNCHANGED local
                   ELSE /\ SetD(b.d)
                        /\ pc' = [pc EXCEPT ![h] = "ct_read"]
                        /\ UNCHANGED <<local, resp>>

\* SELECT balance FROM customers WHERE id = $1 FOR UPDATE
CtRead(h) ==
    /\ pc[h] = "ct_read"
    /\ UNCHANGED <<now, req, pre, nextCust, nextTxn, nreq, opening, calls, aborted>>
    /\ \E o \in Outcomes(h) :
       LET c == req[h].customer_id
           err == o # "ok" \/ txStatus = "E"
           noRows == ~err /\ c \notin DOMAIN txCustomers
       IN  /\ Fault(o)
           /\ SetD(IF o = "ok" THEN (IF err THEN D ELSE SrvLock(D, c)) ELSE Unreached(D, o))
           /\ IF noRows
              THEN /\ resp' = [resp EXCEPT ![h] = ErrorResponse(404, "Customer not found")]
                   /\ pc' = [pc EXCEPT ![h] = "ct_defer"]
                   /\ UNCHANGED local
              ELSE IF err
              THEN /\ resp' = [resp EXCEPT ![h] =
                          ErrorResponse(500, "Failed to get current balance")]
                   /\ pc' = [pc EXCEPT ![h] = "ct_defer"]
                   /\ UNCHANGED local
              ELSE /\ local' = [local EXCEPT ![h].currentBalance = txCustomers[c].balance]
                   /\ pc' = [pc EXCEPT ![h] = "ct_update"]
                   /\ UNCHANGED resp

\* The admission check of a debit.
Insufficient(type, currentBalance, amount) == type = "debit" /\ currentBalance < amount

\* Calculate new balance.
NewBalance(type, currentBalance, amount) ==
    IF type = "debit" THEN currentBalance - amount ELSE currentBalance + amount

\* UPDATE customers SET balance = $1 WHERE id = $2 (no row: nothing is updated, no error)
UpdateBalance(d, customer_id, balance) ==
    SrvWrite(d,
             [c \in DOMAIN d.txCustomers |->
                 IF c = customer_id
                 THEN [d.txCustomers[c] EXCEPT !.balance = NumericRound(balance)]
                 ELSE d.txCustomers[c]],
             d.txTransactions,
             customer_id \in DOMAIN d.txCustomers => BalanceCheck(balance))

\* CtUpdate with the admission check left out, against a customers table that has
\* no CHECK on balance.
CtUpdateUnchecked(h) ==
    /\ pc[h] = "ct_update"
    /\ UNCHANGED <<now, req, pre, nextCust, nextTxn, nreq, opening, calls, aborted, resp>>
    /\ \E o \in Outcomes(h) :
       LET r == req[h]
           newBalance == NewBalance(r.type, local[h].currentBalance, r.amount)
           w == IF o = "ok"
                THEN SrvWrite(D,
                        [c \in DOMAIN txCustomers |->
                            IF c = r.customer_id
                            THEN [txCustomers[c] EXCEPT !.balance = NumericRound(newBalance)]
                            ELSE txCustomers[c]],
                        txTransactions, TRUE)
                ELSE [d |-> Unreached(D, o), err |-> TRUE]
       IN  /\ Fault(o)
           /\ SetD(w.d)
           /\ local' = [local EXCEPT ![h].newBalance = newBalance]
           /\ pc' = [pc EXCEPT ![h] = IF w.err THEN "ct_defer" ELSE "ct_insert"]

CtUpdate(h) ==
    /\ pc[h] = "ct_update"
    /\ UNCHANGED <<now, req, pre, nextCust, nextTxn, nreq, opening, calls, aborted>>
    /\ LET r == req[h]
           newBalance == NewBalance(r.type, local[h].currentBalance, r.amount)
       IN  IF Insufficient(r.type, local[h].currentBalance, r.amount)
           THEN /\ resp' = [resp EXCEPT ![h] = ErrorResponse(400, "Insufficient balance")]
                /\ pc' = [pc EXCEPT ![h] = "ct_defer"]
                /\ UNCHANGED <<storeVars, local, faults>>
           ELSE \E o \in Outcomes(h) :
                LET w == IF o = "ok" THEN UpdateBalance(D, r.customer_id, newBalance)
                         ELSE [d |-> Unreached(D, o), err |-> TRUE]
                IN  /\ Fault(o)
                    /\ SetD(w.d)
                    /\ local' = [local EXCEPT ![h].newBalance = newBalance]
                    /\ IF w.err
                       THEN /\ resp' = [resp EXCEPT ![h] =
                                   ErrorResponse(500, "Failed to update balance")]
                            /\ pc' = [pc EXCEPT ![h] = "ct_defer"]
                       ELSE /\ pc' = [pc EXCEPT ![h] = "ct_insert"]
                            /\ UNCHANGED resp

\* A statement that replaces the journal by the new row.
InsertTransactionReplacing(d, t, id, customer_id, type, amount) ==
    SrvWrite(d,
             d.txCustomers,
             <<[id |-> id, customer_id |-> customer_id, type |-> type,
                amount |-> NumericRound(amount), created_at |-> CurrentTimestamp(d, t)]>>,
             /\ ForeignKeyCheck(d.txCustomers, customer_id)
             /\ TypeCheck(type)
             /\ AmountCheck(amount))

\* INSERT INTO transactions (id, customer_id, type, amount) VALUES ($1, $2, $3, $4)
InsertTransaction(d, t, id, customer_id, type, amount) ==
    SrvWrite(d,
             d.txCustomers,
             Append(d.txTransactions,
                    [id |-> id, customer_id |-> customer_id, type |-> type,
                     amount |-> NumericRound(amount), created_at |-> CurrentTimestamp(d, t)]),
             /\ ForeignKeyCheck(d.txCustomers, customer_id)
             /\ TypeCheck(type)
             /\ AmountCheck(amount))

CtInsert(h) ==
    /\ pc[h] = "ct_insert"
    /\ UNCHANGED <<req, pre, nextCust, nreq, opening, calls, aborted>>
    /\ nextTxn' = nextTxn + 1
    /\ \E o \in Outcomes(h), t \in Clock :
       LET r == req[h]
           id == nextTxn + 1
           w == IF o = "ok" THEN InsertTransaction(D, t, id, r.customer_id, r.type, r.amount)
                ELSE [d |-> Unreached(D, o), err |-> TRUE]
       IN  /\ Fault(o)
           /\ ReadClock(o, t)
           /\ SetD(w.d)
           /\ local' = [local EXCEPT ![h].id = id]
           /\ IF w.err
              THEN /\ resp' = [resp EXCEPT ![h] =
                          ErrorResponse(500, "Failed to create transaction")]
                   /\ pc' = [pc EXCEPT ![h] = "ct_defer"]
              ELSE /\ pc' = [pc EXCEPT ![h] = "ct_commit"]
                   /\ UNCHANGED resp

\* A Commit that never reports an error.
TxCommitSilent(d, o) ==
    IF o = "ok" THEN [d |-> SrvCommit(d).d, err |-> FALSE]
    ELSE [d |-> IF o = "io" \/ d.txStatus # "I" THEN SrvClose(d) ELSE d, err |-> FALSE]

\* tx.Commit: the tx is closed whatever the result; on an error the connection is
\* closed unless the session is outside a transaction; COMMIT answered with the
\* command tag ROLLBACK is an error.
TxCommit(d, o) ==
    IF o = "ok"
    THEN [d |-> SrvCommit(d).d, err |-> SrvCommit(d).tag = "ROLLBACK"]
    ELSE [d |-> IF o = "io" \/ d.txStatus # "I" THEN SrvClose(d) ELSE d, err |-> TRUE]

CtCommit(h) ==
    /\ pc[h] = "ct_commit"
    /\ UNCHANGED <<req, pre, nextCust, nextTxn, nreq, opening, calls, aborted>>
    /\ \E o \in Outcomes(h), t \in Clock :
       LET w == TxCommit(D, o)
       IN  /\ Fault(o)
           /\ now' = (IF o = "ok" THEN t ELSE now)
           /\ SetD(w.d)
           /\ local' = [local EXCEPT ![h].txClosed = TRUE]
           /\ pc' = [pc EXCEPT ![h] = "ct_defer"]
           /\ resp' = [resp EXCEPT ![h] =
                  IF w.err THEN ErrorResponse(500, "Failed to commit transaction")
                  ELSE [NoResp EXCEPT !.status = 201, !.id = local[h].id,
                                      !.balance = local[h].newBalance]]

\* A Rollback that is sent also for a closed tx.
TxRollbackSent(d, o, txClosed) == IF o = "ok" THEN SrvRollback(d) ELSE SrvClose(d)

\* tx.Rollback: nothing is sent for a closed tx; a failed Rollback closes the connection.
TxRollback(d, o, txClosed) ==
    IF txClosed THEN d
    ELSE IF o = "ok" THEN SrvRollback(d)
    ELSE SrvClose(d)

\* The call succeeded or was refused for insufficient balance.
Settled(response) ==
    response.status = 201 \/ response.error = "Insufficient balance"

\* c.Request.Context() is cancelled (the client went away, a deadline passed) while
\* CreateTransaction is between two statements, its Commit not yet issued.  Every
\* later call the handler makes with that context fails.  For the other handlers a
\* cancelled call behaves as a "busy" one.
Cancel(h) ==
    /\ pc[h] \in {"ct_read", "ct_update", "ct_insert", "ct_commit"}
    /\ ~local[h].cancelled
    /\ faults < MaxFaults
    /\ faults' = faults + 1
    /\ local' = [local EXCEPT ![h].cancelled = TRUE]
    /\ UNCHANGED <<storeVars, now, pc, req, resp, pre, nextCust, nextTxn, nreq, opening,
                   calls, aborted>>

\* defer tx.Rollback(...), then the handler returns.
CtDefer(h) ==
    /\ pc[h] = "ct_defer"
    /\ UNCHANGED <<now, req, local, resp, pre, nextCust, nextTxn, nreq, opening>>
    /\ pc' = [pc EXCEPT ![h] = "done"]
    /\ calls' = IF Settled(resp[h])
                THEN Append(calls,
                        [customer_id |-> req[h].customer_id, type |-> req[h].type,
                         amount |-> req[h].amount, status |-> resp[h].status])
                ELSE calls
    /\ aborted' = (aborted \/ ~Settled(resp[h]))
    /\ \E o \in (IF local[h].txClosed THEN {"ok"} ELSE Outcomes(h)) :
       /\ Fault(o)
       /\ SetD(TxRollback(D, o, local[h].txClosed))

(***************************************************************************)
(* GetBalance: GET /customers/:customer_id/balance.  The handler reads the *)
(* path parameter "id".                                                    *)
(***************************************************************************)
\* Helper function to validate currency codes
isValidCurrency(currency) == currency \in {"USD", "EUR", "GBP"}

\* c.DefaultQuery("currency", "USD")
TargetCurrency(r) == IF r.currency = "" THEN "USD" ELSE r.currency

\* getExchangeRate: the answer of the external exchange-rate service, or a failure.
getExchangeRate(toCurrency, amount) ==
    {[err |-> TRUE, result |-> 0],
     [err |-> FALSE, result |-> IF toCurrency = "USD" THEN amount ELSE 2 * amount]}

GetBalance(h, r) ==
    /\ Accept(h, r)
    /\ pc' = [pc EXCEPT ![h] = "done"]
    /\ UNCHANGED <<now, local, nextCust, nextTxn, opening, calls, aborted>>
    /\ LET customerID == Param(r, "id")
       IN  IF ~UuidParseOk(customerID)
           THEN /\ resp' = [resp EXCEPT ![h] = ErrorResponse(400, "Invalid customer ID")]
                /\ UNCHANGED <<storeVars, faults>>
           ELSE IF ~isValidCurrency(TargetCurrency(r))
           THEN /\ resp' = [resp EXCEPT ![h] = ErrorResponse(400, "Invalid currency code")]
                /\ UNCHANGED <<storeVars, faults>>
           ELSE \E o \in Outcomes(h) :
                LET err == o # "ok" \/ txStatus = "E"
                IN  /\ Fault(o)
                    /\ SetD(Unreached(D, o))
                    /\ IF err
                       THEN resp' = [resp EXCEPT ![h] = ErrorResponse(500, "Database error")]
                       ELSE IF customerID \notin DOMAIN txCustomers
                       THEN resp' = [resp EXCEPT ![h] = ErrorResponse(404, "Customer not found")]
                       ELSE \E x \in getExchangeRate(TargetCurrency(r),
                                                     txCustomers[customerID].balance) :
                            resp' = [resp EXCEPT ![h] =
                                IF x.err THEN ErrorResponse(500, "exchange rate API error")
                                ELSE [NoResp EXCEPT !.status = 200, !.id = customerID,
                                                    !.balance = x.result]]

(***************************************************************************)
(* GetTransactions: GET /customers/:customer_id/transactions.  Three       *)
(* statements on the connection: EXISTS, COUNT, and the page query.     *)
(***************************************************************************)
\* c.Query(name) with its default: the empty string keeps the default, another
\* string is read with fmt.Sscanf.
QueryInt(s, default) == IF s = EmptyParam THEN default ELSE s

DefaultPage == 1
DefaultPageSize == 10

\* Go's int, IntBits wide: MinInt..MaxInt, and arithmetic wraps around.
IntBits == 8
MaxInt == 2^(IntBits - 1) - 1
MinInt == 0 - 2^(IntBits - 1)
WrapInt(x) == ((x - MinInt) % 2^IntBits) + MinInt

\* Go's integer division truncates toward zero.
GoDiv(a, b) == IF a >= 0 THEN a \div b ELSE 0 - ((0 - a) \div b)

\* fmt.Sscanf(s, "%d", &v) returns an error for a number that does not fit an int.
SscanfErr(s) == s # EmptyParam /\ s \notin MinInt..MaxInt

\* A read on the connection: an error unless it reaches a session that accepts it.
ReadErr(o) == o # "ok" \/ txStatus = "E"

GtExists(h, r) ==
    /\ Accept(h, r)
    /\ UNCHANGED <<now, nextCust, nextTxn, opening, calls, aborted>>
    /\ LET customerID == Param(r, "customer_id")
           page == QueryInt(r.page, DefaultPage)
           pageSize == QueryInt(r.page_size, DefaultPageSize)
       IN  IF ~UuidParseOk(customerID)
           THEN /\ resp' = [resp EXCEPT ![h] = ErrorResponse(400, "Invalid customer ID")]
                /\ pc' = [pc EXCEPT ![h] = "done"]
                /\ UNCHANGED <<storeVars, local, faults>>
           ELSE IF SscanfErr(r.page) \/ page < 1
           THEN /\ resp' = [resp EXCEPT ![h] = ErrorResponse(400, "Invalid page number")]
                /\ pc' = [pc EXCEPT ![h] = "done"]
                /\ UNCHANGED <<storeVars, local, faults>>
           ELSE IF SscanfErr(r.page_size) \/ pageSize < 1
           THEN /\ resp' = [resp EXCEPT ![h] = ErrorResponse(400, "Invalid page size")]
                /\ pc' = [pc EXCEPT ![h] = "done"]
                /\ UNCHANGED <<storeVars, local, faults>>
           ELSE \E o \in Outcomes(h) :
                /\ Fault(o)
                /\ SetD(Unreached(D, o))
                /\ IF ReadErr(o)
                   THEN /\ resp' = [resp EXCEPT ![h] =
                               ErrorResponse(500, "Failed to verify customer")]
                        /\ pc' = [pc EXCEPT ![h] = "done"]
                        /\ UNCHANGED local
                   ELSE IF customerID \notin DOMAIN txCustomers
                   THEN /\ resp' = [resp EXCEPT ![h] = ErrorResponse(404, "Customer not found")]
                        /\ pc' = [pc EXCEPT ![h] = "done"]
                        /\ UNCHANGED local
                   ELSE /\ local' = [local EXCEPT ![h].page = page, ![h].pageSize = pageSize]
                        /\ pc' = [pc EXCEPT ![h] = "gt_count"]
                        /\ UNCHANGED resp

\* SELECT COUNT FROM transactions WHERE customer_id = $1
GtCount(h) ==
    /\ pc[h] = "gt_count"
    /\ UNCHANGED <<now, req, pre, nextCust, nextTxn, nreq, opening, calls, aborted>>
    /\ \E o \in Outcomes(h) :
       /\ Fault(o)
       /\ SetD(Unreached(D, o))
       /\ IF ReadErr(o)
          THEN /\ resp' = [resp EXCEPT ![h] = ErrorResponse(500, "Failed to get total count")]
               /\ pc' = [pc EXCEPT ![h] = "done"]
               /\ UNCHANGED local
          ELSE /\ local' = [local EXCEPT ![h].totalCount =
                      Len(OwnedBy(txTransactions, req[h].customer_id))]
               /\ pc' = [pc EXCEPT ![h] = "gt_query"]
               /\ UNCHANGED resp

\* ORDER BY created_at DESC: every order of the rows in which no row comes before a
\* row with a later created_at (rows with equal created_at come in any order).
Orderings(rows) ==
    LET n == Len(rows)
        perms == {f \in [1..n -> 1..n] : \A i, j \in 1..n : i # j => f[i] # f[j]}
    IN  {[i \in 1..n |-> rows[f[i]]] : f \in
            {g \in perms : \A i, j \in 1..n :
                i < j => rows[g[i]].created_at >= rows[g[j]].created_at}}

\* LIMIT $2 OFFSET $3
LimitOffset(rows, limit, offset) ==
    SubSeq(rows, offset + 1, IF offset + limit < Len(rows) THEN offset + limit ELSE Len(rows))

\* Clock ticks in one second.
SubSecond == 2

\* timestamp.Format(time.RFC3339): whole seconds.
RFC3339(t) == t \div SubSecond

\* The JSON object of one row.
TransactionJSON(t) ==
    [transaction_id |-> t.id, type |-> t.type, amount |-> t.amount,
     timestamp |-> RFC3339(t.created_at)]

\* X-Total-Pages
TotalPages(totalCount, pageSize) == GoDiv(WrapInt(totalCount + pageSize - 1), pageSize)

\* c.JSON(http.StatusOK, transactions) with the pagination headers.
Listing(h, page) ==
    [NoResp EXCEPT !.status = 200,
                   !.rows = [i \in 1..Len(page) |-> TransactionJSON(page[i])],
                   !.totalCount = local[h].totalCount,
                   !.page = local[h].page,
                   !.pageSize = local[h].pageSize,
                   !.totalPages = TotalPages(local[h].totalCount, local[h].pageSize)]

\* The page query.  The store refuses a negative OFFSET; the error reaches the handler
\* from db.Query, or from rows.Err, which the handler never reads: then rows.Next
\* ends the loop at once and the handler answers 200 with no rows.
GtQuery(h) ==
    /\ pc[h] = "gt_query"
    /\ pc' = [pc EXCEPT ![h] = "done"]
    /\ UNCHANGED <<now, req, local, pre, nextCust, nextTxn, nreq, opening, calls, aborted>>
    /\ \E o \in Outcomes(h) :
       LET offset == WrapInt((local[h].page - 1) * local[h].pageSize)
           refused == ~ReadErr(o) /\ offset < 0
       IN  /\ Fault(o)
           /\ SetD(IF refused /\ txStatus = "T" THEN [D EXCEPT !.txStatus = "E"]
                   ELSE Unreached(D, o))
           /\ IF ReadErr(o)
              THEN resp' = [resp EXCEPT ![h] =
                       ErrorResponse(500, "Failed to fetch transactions")]
              ELSE IF refused
              THEN \/ resp' = [resp EXCEPT ![h] =
                          ErrorResponse(500, "Failed to fetch transactions")]
                   \/ resp' = [resp EXCEPT ![h] = Listing(h, <<>>)]
              ELSE \E ordered \in Orderings(OwnedBy(txTransactions, req[h].customer_id)) :
                       resp' = [resp EXCEPT ![h] =
                           Listing(h, LimitOffset(ordered, local[h].pageSize, offset))]

(***************************************************************************)
(* The program.                                                            *)
(***************************************************************************)
Init ==
    /\ customers = EmptyCustomers
    /\ transactions = <<>>
    /\ txCustomers = EmptyCustomers
    /\ txTransactions = <<>>
    /\ txStatus = "I"
    /\ rowLocks = {}
    /\ txStart = 0
    /\ connClosed = FALSE
    /\ now = 0
    /\ pc = [h \in Handlers |-> "idle"]
    /\ req = [h \in Handlers |-> NoReq]
    /\ local = [h \in Handlers |-> NoLocal]
    /\ resp = [h \in Handlers |-> NoResp]
    /\ pre = [h \in Handlers |-> NoPre]
    /\ nextCust = 0
    /\ nextTxn = 0
    /\ nreq = 0
    /\ faults = 0
    /\ opening = [c \in {} |-> 0]
    /\ calls = <<>>
    /\ aborted = FALSE

\* A request arrives and its handler runs to its first statement.
Start(h) ==
    \/ \E r \in CreateCustomerRequests : CreateCustomer(h, r)
    \/ \E r \in CreateTransactionRequests : CtBegin(h, r)
    \/ \E r \in GetBalanceRequests : GetBalance(h, r)
    \/ \E r \in GetTransactionsRequests : GtExists(h, r)

\* A handler in flight issues its next statement, or returns.
Step(h) ==
    \/ CtRead(h)
    \/ CtUpdate(h)
    \/ CtInsert(h)
    \/ CtCommit(h)
    \/ CtDefer(h)
    \/ Cancel(h)
    \/ GtCount(h)
    \/ GtQuery(h)
    \/ Return(h)

\* Requests are served concurrently, each in its own goroutine.
Next == \E h \in Handlers : Start(h) \/ Step(h)

Spec == Init /\ [][Next]_vars

(***************************************************************************)
(* The service with its accounts opened: the process starts (main) on a    *)
(* database in which earlier CreateCustomer calls stored every customer of *)
(* CustIds, the first with a balance of one cent and the others with none, *)
(* and serves PairCalls CreateTransaction requests on these customers.     *)
(***************************************************************************)
PairCalls == 2

PairCustomers ==
    [c \in CustIds |-> [name |-> "John Doe", balance |-> IF c = 1 THEN Resolution ELSE 0]]

PairRequests ==
    {r \in CreateTransactionRequests : r.customer_id \in CustIds /\ BindTransaction(r)}

InitPair ==
    /\ customers = PairCustomers
    /\ transactions = <<>>
    /\ txCustomers = PairCustomers
    /\ txTransactions = <<>>
    /\ txStatus = "I"
    /\ rowLocks = {}
    /\ txStart = 0
    /\ connClosed = FALSE
    /\ now = 0
    /\ pc = [h \in Handlers |-> "idle"]
    /\ req = [h \in Handlers |-> NoReq]
    /\ local = [h \in Handlers |-> NoLocal]
    /\ resp = [h \in Handlers |-> NoResp]
    /\ pre = [h \in Handlers |-> NoPre]
    /\ nextCust = MaxCustomers
    /\ nextTxn = 0
    /\ nreq = 0
    /\ faults = 0
    /\ opening = [c \in CustIds |-> PairCustomers[c].balance]
    /\ calls = <<>>
    /\ aborted = FALSE

NextPair ==
    \E h \in Handlers :
        \/ \E r \in PairRequests : nreq < PairCalls /\ CtBegin(h, r)
        \/ CtRead(h)
        \/ CtUpdate(h)
        \/ CtInsert(h)
        \/ CtCommit(h)
        \/ CtDefer(h)
        \/ Cancel(h)
        \/ Return(h)

SpecPair == InitPair /\ [][NextPair]_vars

\* A handler's goroutine is scheduled again and again, and a statement it issues on the
\* connection is answered (with a result or an error): a handler that has a next
\* statement or its return ahead takes it.
Runs(h) == CtRead(h) \/ CtUpdate(h) \/ CtInsert(h) \/ CtCommit(h) \/ CtDefer(h)

FairPair == SpecPair /\ \A h \in Handlers : WF_vars(Runs(h))

(***************************************************************************)
(* The service listing a journal: the process starts (main) on a database  *)
(* in which earlier calls stored every customer of CustIds and up to       *)
(* MaxRows credits of one cent, and serves ListCalls GetTransactions       *)
(* requests.  Rows inserted in one transaction of the session share their  *)
(* created_at.                                                             *)
(***************************************************************************)
MaxRows == 3
ListCalls == 2

\* The journals earlier calls can have left: created_at never decreases along the
\* insertion order.
ListJournals ==
    {j \in UNION {[1..n -> [customer_id : CustIds, created_at : 0..MaxTime]] : n \in 0..MaxRows} :
        \A i \in 1..(Len(j) - 1) : j[i].created_at <= j[i + 1].created_at}

ListRows(j) ==
    [i \in 1..Len(j) |-> [id |-> i, customer_id |-> j[i].customer_id, type |-> "credit",
                          amount |-> Resolution, created_at |-> j[i].created_at]]

ListCustomers(rows) ==
    [c \in CustIds |-> [name |-> "John Doe", balance |-> Resolution * Len(OwnedBy(rows, c))]]

ListPageInputs == {EmptyParam, 0 - 2, 0, 1, 2, 3, 4, 2^(IntBits - 2) + 1, MaxInt, MaxInt + 1}
ListPageSizeInputs == {EmptyParam, 0 - 2, 0, 1, 2, 4, MaxInt, MaxInt + 1}

\* Of the requests that fail in the same way for the same reason one is kept: a bad
\* page or page size comes with no other parameter, an unknown customer with no good
\* ones; a parameter is left out only together with the other; a page near MaxInt
\* comes with the page sizes whose product with it does not fit an int.
ListRequests ==
    {r \in {[NoReq EXCEPT !.op = "GetTransactions", !.customer_id = c, !.page = p,
                          !.page_size = ps] :
                c \in {1, UnknownUUID}, p \in ListPageInputs, ps \in ListPageSizeInputs} :
        /\ r.customer_id = UnknownUUID
               => r.page \in {EmptyParam, 0} /\ r.page_size \in {EmptyParam, 0}
        /\ (r.page # EmptyParam /\ (SscanfErr(r.page) \/ r.page < 1)) => r.page_size = EmptyParam
        /\ (r.page_size # EmptyParam /\ (SscanfErr(r.page_size) \/ r.page_size < 1))
               => r.page = EmptyParam
        /\ (r.page = EmptyParam /\ r.page_size >= 1) => SscanfErr(r.page_size)
        /\ (r.page_size = EmptyParam /\ r.page >= 1) => SscanfErr(r.page)
        /\ (r.page > MaxRows + 1 /\ ~SscanfErr(r.page)) => r.page_size \in {EmptyParam, 2, 4}}

InitList ==
    \E j \in ListJournals :
        /\ customers = ListCustomers(ListRows(j))
        /\ transactions = ListRows(j)
        /\ txCustomers = ListCustomers(ListRows(j))
        /\ txTransactions = ListRows(j)
        /\ txStatus = "I"
        /\ rowLocks = {}
        /\ txStart = 0
        /\ connClosed = FALSE
        /\ now = MaxTime
        /\ pc = [h \in Handlers |-> "idle"]
        /\ req = [h \in Handlers |-> NoReq]
        /\ local = [h \in Handlers |-> NoLocal]
        /\ resp = [h \in Handlers |-> NoResp]
        /\ pre = [h \in Handlers |-> NoPre]
        /\ nextCust = MaxCustomers
        /\ nextTxn = Len(j)
        /\ nreq = 0
        /\ faults = 0
        /\ opening = [c \in CustIds |-> 0]
        /\ calls = <<>>
        /\ aborted = FALSE

NextList ==
    \E h \in Handlers :
        \/ \E r \in ListRequests : nreq < ListCalls /\ GtExists(h, r)
        \/ GtCount(h)
        \/ GtQuery(h)
        \/ Return(h)

SpecList == InitList /\ [][NextList]_vars

(***************************************************************************)
(* What the claims speak of.                                               *)
(***************************************************************************)
\* No request is in flight.
Quiescent == \A h \in Handlers : pc[h] = "idle"

\* Handler h serves a CreateTransaction request that passed binding.
Applying(h) == req[h].op = "CreateTransaction" /\ BindTransaction(req[h])

\* Handler h is between its locked read of the balance and the end of its unit of work.
HoldsBalance(h) == pc[h] \in {"ct_update", "ct_insert", "ct_commit"}

\* Handler h has read the balance under the lock (local[h].currentBalance is that read).
HasRead(h) ==
    /\ Applying(h)
    /\ \/ HoldsBalance(h)
       \/ /\ pc[h] \in {"ct_defer", "done"}
          /\ resp[h].error \notin {"Failed to start transaction",
                                   "Failed to get current balance", "Customer not found"}

\* The sum of the amounts of the rows of one kind in a sequence of transactions.
RECURSIVE SumOf(_, _)
SumOf(rows, type) ==
    IF rows = <<>> THEN 0
    ELSE (IF Head(rows).type = type THEN Head(rows).amount ELSE 0) + SumOf(Tail(rows), type)

\* The ids of the rows of a transactions table.
Ids(tbl) == {tbl[i].id : i \in 1..Len(tbl)}

\* The settled calls on one customer.
CallsOn(c) == SelectSeq(calls, LAMBDA k : k.customer_id = c)

\* The calls ks run one after another in the order `order` from balance b: whether
\* each call's status is the one a serial run gives it, and the final balance.
RECURSIVE SerialRun(_, _, _, _)
SerialRun(b, ks, order, i) ==
    IF i > Len(ks) THEN [ok |-> TRUE, balance |-> b]
    ELSE LET k == ks[order[i]]
             refused == Insufficient(k.type, b, k.amount)
             rest == SerialRun(IF refused THEN b
                               ELSE NumericRound(NewBalance(k.type, b, k.amount)),
                               ks, order, i + 1)
         IN  [ok |-> rest.ok /\ k.status = (IF refused THEN 400 ELSE 201),
              balance |-> rest.balance]

Orders(n) == {f \in [1..n -> 1..n] : \A i, j \in 1..n : i # j => f[i] # f[j]}

(***************************************************************************)
(* C1.  Concurrent Apply calls on one customer are equivalent to a serial  *)
(* order: when no request is in flight, no call on the connection has      *)
(* failed and every Apply has returned success or InsufficientBalance, the *)
(* calls on a customer can be put in an order whose serial run from the    *)
(* opening balance gives every call the status it got and ends with the    *)
(* stored balance.                                                         *)
(***************************************************************************)
C1_SerialOrder ==
    (Quiescent /\ faults = 0 /\ ~aborted) =>
        \A c \in DOMAIN customers :
            \E order \in Orders(Len(CallsOn(c))) :
                LET run == SerialRun(opening[c], CallsOn(c), order, 1)
                IN  run.ok /\ run.balance = customers[c].balance

(***************************************************************************)
(* C2.  Every customer's stored balance is >= 0, in the committed table    *)
(* and in the table as the session sees it.                                *)
(***************************************************************************)
C2_BalanceNonNegative ==
    /\ \A c \in DOMAIN customers : customers[c].balance >= 0
    /\ \A c \in DOMAIN txCustomers : txCustomers[c].balance >= 0

\* A debit was refused for a customer whose stored balance is 0.
C2_Witness ==
    \E c \in DOMAIN customers :
        /\ customers[c].balance = 0
        /\ \E i \in 1..Len(calls) :
              calls[i].customer_id = c /\ calls[i].type = "debit" /\ calls[i].status = 400

(***************************************************************************)
(* C3.  For every customer the stored balance is the opening balance plus  *)
(* the credit Transactions minus the debit Transactions of the committed   *)
(* journal.                                                                *)
(***************************************************************************)
C3_JournalExplainsBalance ==
    \A c \in DOMAIN customers :
        customers[c].balance =
            opening[c] + SumOf(OwnedBy(transactions, c), "credit")
                       - SumOf(OwnedBy(transactions, c), "debit")

(***************************************************************************)
(* C4.  An Apply that reports InternalError leaves nothing of its own      *)
(* behind: the journal entry it inserted is not in the committed journal.  *)
(***************************************************************************)
C4_FailedApplyLeavesNothing ==
    \A h \in Handlers :
        (pc[h] = "done" /\ Applying(h) /\ resp[h].status = 500 /\ local[h].id # 0)
            => local[h].id \notin Ids(transactions)

(***************************************************************************)
(* C5.  At most one Apply per customer is between its locked read of the   *)
(* balance and the end of its unit of work.                                *)
(***************************************************************************)
C5_OneApplyPerCustomer ==
    \A g, h \in Handlers :
        (g # h /\ HoldsBalance(g) /\ HoldsBalance(h))
            => req[g].customer_id # req[h].customer_id

(***************************************************************************)
(* C6.  A ListTransactions response holds only committed Transactions.     *)
(***************************************************************************)
C6_ReadersSeeCommitted ==
    \A h \in Handlers :
        (pc[h] = "done" /\ req[h].op = "GetTransactions" /\ resp[h].status = 200)
            => \A i \in 1..Len(resp[h].rows) :
                  resp[h].rows[i].transaction_id \in Ids(transactions)

(***************************************************************************)
(* C7.  A debit of more than the balance read, on a customer stored when   *)
(* the call arrived, is refused with InsufficientBalance, and when the     *)
(* call returns the stored balance is the balance read and the customer    *)
(* has as many Transactions as before.                                     *)
(***************************************************************************)
C7_DebitOverBalanceRefused ==
    \A h \in Handlers :
        (/\ pc[h] = "done"
         /\ HasRead(h)
         /\ req[h].customer_id \in DOMAIN pre[h].customers
         /\ req[h].type = "debit"
         /\ req[h].amount > local[h].currentBalance)
            => /\ resp[h].status = 400
               /\ resp[h].error = "Insufficient balance"
               /\ req[h].customer_id \in DOMAIN customers
               /\ customers[req[h].customer_id].balance = local[h].currentBalance
               /\ Len(OwnedBy(transactions, req[h].customer_id))
                      = Len(OwnedBy(pre[h].transactions, req[h].customer_id))

(***************************************************************************)
(* C8.  A credit of a > 0 to a customer with balance b succeeds, returns   *)
(* b + a, leaves the stored balance at b + a and adds one Transaction of   *)
(* kind credit and amount a (no call on the connection having failed).     *)
(***************************************************************************)
C8_CreditSucceeds ==
    \A h \in Handlers :
        (/\ pc[h] = "done"
         /\ HasRead(h)
         /\ faults = 0
         /\ req[h].type = "credit")
            => /\ resp[h].status = 201
               /\ resp[h].balance = local[h].currentBalance + req[h].amount
               /\ req[h].customer_id \in DOMAIN customers
               /\ customers[req[h].customer_id].balance
                      = local[h].currentBalance + req[h].amount
               /\ \E i \in 1..Len(transactions) :
                      /\ transactions[i].id = local[h].id
                      /\ transactions[i].customer_id = req[h].customer_id
                      /\ transactions[i].type = "credit"
                      /\ transactions[i].amount = req[h].amount

(***************************************************************************)
(* C9.  A debit of a with 0 < a <= b from a customer with balance b        *)
(* succeeds and leaves the stored balance at b - a (no call on the         *)
(* connection having failed).                                              *)
(***************************************************************************)
C9_DebitSucceeds ==
    \A h \in Handlers :
        (/\ pc[h] = "done"
         /\ HasRead(h)
         /\ faults = 0
         /\ req[h].type = "debit"
         /\ req[h].amount <= local[h].currentBalance)
            => /\ resp[h].status = 201
               /\ req[h].customer_id \in DOMAIN customers
               /\ customers[req[h].customer_id].balance
                      = local[h].currentBalance - req[h].amount

(***************************************************************************)
(* C10.  When no request is in flight and no call on the connection has   *)
(* failed, a customer owns as many Transactions as Apply calls on it       *)
(* returned success.                                                       *)
(***************************************************************************)
C10_OneTransactionPerSuccess ==
    (Quiescent /\ faults = 0) =>
        \A c \in CustIds :
            Len(OwnedBy(transactions, c))
                = Len(SelectSeq(CallsOn(c), LAMBDA k : k.status = 201))

(***************************************************************************)
(* C11.  An Apply whose kind is not credit or debit, or whose amount is    *)
(* not strictly positive, answers InvalidInput (400) in the step that      *)
(* accepts it, and in that step the store is not touched: no table, no     *)
(* transaction status, no row lock changes and the connection is not used. *)
(* Afterwards the handler only returns.                                    *)
(***************************************************************************)
C11_InvalidApplyTouchesNothing ==
    [][\A h \in Handlers :
          /\ (/\ pc[h] = "idle"
              /\ req'[h].op = "CreateTransaction"
              /\ ~(req'[h].type \in {"credit", "debit"} /\ req'[h].amount > 0))
                 => /\ pc'[h] = "done"
                    /\ resp'[h].status = 400
                    /\ resp'[h].error =
                         "Invalid input: customer_id, type (credit/debit), and amount (> 0) are required"
                    /\ UNCHANGED <<storeVars, faults, nextTxn>>
          /\ (/\ pc[h] = "done"
              /\ req[h].op = "CreateTransaction"
              /\ resp[h].status = 400
              /\ resp[h].error # "Insufficient balance"
              /\ pc'[h] # "done")
                 => pc'[h] = "idle" /\ UNCHANGED <<storeVars, faults, nextTxn>>]_vars

\* An Apply with a negative amount has been refused while another Apply holds the
\* session's transaction open.
C11_Witness ==
    \E g, h \in Handlers :
        /\ pc[h] = "done" /\ req[h].op = "CreateTransaction" /\ req[h].amount < 0
        /\ resp[h].status = 400
        /\ pc[g] = "ct_insert" /\ txStatus = "T"

(***************************************************************************)
(* C12.  An Apply with a valid kind and amount on an identifier that no    *)
(* customer has answers NotFound (404), having written no balance and      *)
(* inserted no Transaction (no call on the connection having failed).      *)
(***************************************************************************)
C12_UnknownCustomerNotFound ==
    \A h \in Handlers :
        (/\ pc[h] = "done"
         /\ Applying(h)
         /\ req[h].customer_id \in {NilUUID, UnknownUUID}
         /\ faults = 0)
            => /\ resp[h].status = 404
               /\ resp[h].error = "Customer not found"
               /\ local[h].id = 0
               /\ local[h].newBalance = 0

(***************************************************************************)
(* C13.  An Apply on a stored customer whose context was cancelled before  *)
(* its commit, with no other failure of the connection, returns with none  *)
(* of its writes stored and with the connection still open, so that later  *)
(* calls can be served.                                                    *)
(***************************************************************************)
C13_CancelledApplyRollsBack ==
    \A h \in Handlers :
        (/\ pc[h] = "done"
         /\ Applying(h)
         /\ req[h].customer_id \in DOMAIN pre[h].customers
         /\ local[h].cancelled
         /\ faults = 1)
            => /\ ~connClosed
               /\ local[h].id \notin Ids(transactions)

\* Every CreateTransaction call accepted so far is in the log of settled calls or
\* still held by its handler.
AllCallsVisible ==
    Len(calls) + Cardinality({g \in Handlers :
                                 /\ pc[g] # "idle"
                                 /\ ~(pc[g] = "done" /\ Settled(resp[g]))}) = nreq

\* Every call in the log or in flight is of a whole number of cents.
WholeCents ==
    /\ \A i \in 1..Len(calls) : calls[i].amount = NumericRound(calls[i].amount)
    /\ \A g \in Handlers : pc[g] # "idle" => req[g].amount = NumericRound(req[g].amount)

\* The call of handler h is the only one made on its customer.
AloneOnCustomer(h) ==
    /\ AllCallsVisible
    /\ Len(CallsOn(req[h].customer_id)) = (IF Settled(resp[h]) THEN 1 ELSE 0)
    /\ \A g \in Handlers \ {h} : pc[g] # "idle" => req[g].customer_id # req[h].customer_id

(***************************************************************************)
(* C14.  An Apply that is the only Apply made on its customer has the      *)
(* outcome it has when run alone, whatever Apply calls on other customers  *)
(* are in flight or have returned (all of whole cents): it is refused      *)
(* only for insufficient balance, and otherwise succeeds, returns the new  *)
(* balance and the new balance is stored (no call on the connection having *)
(* failed).                                                                *)
(***************************************************************************)
C14_OtherCustomersDoNotInterfere ==
    \A h \in Handlers :
        (/\ pc[h] = "done"
         /\ Applying(h)
         /\ req[h].customer_id \in DOMAIN opening
         /\ WholeCents
         /\ faults = 0
         /\ AloneOnCustomer(h))
            => LET a == req[h].customer_id
                   b == opening[a]
               IN  IF Insufficient(req[h].type, b, req[h].amount)
                   THEN /\ resp[h].status = 400
                        /\ resp[h].error = "Insufficient balance"
                        /\ customers[a].balance = b
                   ELSE /\ resp[h].status = 201
                        /\ resp[h].balance = NewBalance(req[h].type, b, req[h].amount)
                        /\ customers[a].balance = NewBalance(req[h].type, b, req[h].amount)

\* The rows a step adds to the committed journal.
Committed == (Len(transactions) + 1)..Len(transactions')

\* In the committed journal after the step, no earlier row of the same customer has a
\* later created_at than row i.
NotBeforeEarlier(i) ==
    \A j \in 1..(i - 1) :
        transactions'[j].customer_id = transactions'[i].customer_id
            => transactions'[j].created_at <= transactions'[i].created_at

(***************************************************************************)
(* C15 as stated.  A Transaction's created_at is the store's time at the   *)
(* commit that stores it, and per customer a Transaction committed later   *)
(* never has an earlier created_at.                                        *)
(***************************************************************************)
C15_TimestampAtCommit ==
    [][\A i \in Committed :
          /\ transactions'[i].created_at = now'
          /\ NotBeforeEarlier(i)]_vars

(***************************************************************************)
(* C15 amended.  A Transaction's created_at is the start time of the       *)
(* session's transaction that inserted it (the statement's time when the   *)
(* INSERT ran outside a transaction), which is never later than the        *)
(* store's time at commit; per customer a Transaction committed later      *)
(* never has an earlier created_at.                                        *)
(***************************************************************************)
C15_TimestampAtStart ==
    [][\A i \in Committed :
          /\ transactions'[i].created_at = (IF txStatus = "T" THEN txStart ELSE now')
          /\ transactions'[i].created_at <= now'
          /\ NotBeforeEarlier(i)]_vars

\* A customer's second Transaction is committed with a later created_at than its first,
\* in a transaction that began before the store's clock moved on.
C15_Witness ==
    \E i, j \in 1..Len(transactions) :
        /\ i < j
        /\ transactions[i].customer_id = transactions[j].customer_id
        /\ transactions[i].created_at < transactions[j].created_at

\* The handler answered a GetTransactions request with a page.
Listed(h) == pc[h] = "done" /\ req[h].op = "GetTransactions" /\ resp[h].status = 200

\* The created_at of the stored Transaction with this id.
CreatedAt(id) == (CHOOSE t \in {transactions[i] : i \in 1..Len(transactions)} : t.id = id).created_at

\* The ids of a returned page.
PageIds(rows) == {rows[i].transaction_id : i \in 1..Len(rows)}

\* No row of the page comes before a row created later.
Descending(rows) ==
    \A i, j \in 1..Len(rows) :
        i < j => CreatedAt(rows[i].transaction_id) >= CreatedAt(rows[j].transaction_id)

(***************************************************************************)
(* C16.  ListTransactions returns a customer's Transactions in descending  *)
(* order of created_at, and the order of Transactions with equal           *)
(* created_at is fixed: two calls with the same parameters over unchanged  *)
(* data return the same sequence.                                          *)
(***************************************************************************)
C16_SameSequence ==
    /\ \A h \in Handlers : Listed(h) => Descending(resp[h].rows)
    /\ \A h, g \in Handlers :
          (Listed(h) /\ Listed(g) /\ req[h] = req[g]) => resp[h].rows = resp[g].rows

\* ceil(T / p)
Ceil(T, p) == (T + p - 1) \div p

\* The number of rows of page k when T rows come in pages of p.
PageLen(T, p, k) ==
    LET rest == T - (k - 1) * p
    IN  IF rest <= 0 THEN 0 ELSE IF rest < p THEN rest ELSE p

\* The request asks for one of the pages 1..ceil(T/p)+1 of an existing customer.
Paging(h) ==
    /\ pc[h] = "done"
    /\ req[h].op = "GetTransactions"
    /\ req[h].customer_id \in DOMAIN customers
    /\ ~SscanfErr(req[h].page) /\ QueryInt(req[h].page, DefaultPage) >= 1
    /\ ~SscanfErr(req[h].page_size) /\ QueryInt(req[h].page_size, DefaultPageSize) >= 1
    /\ QueryInt(req[h].page, DefaultPage)
         <= Ceil(Len(OwnedBy(transactions, req[h].customer_id)),
                 QueryInt(req[h].page_size, DefaultPageSize)) + 1

(***************************************************************************)
(* C17.  Over unchanged data, for a customer with T Transactions and a     *)
(* page size p >= 1, each of the pages 1..ceil(T/p)+1 succeeds, holds the  *)
(* customer's Transactions in descending order of created_at, and has      *)
(* min(p, T - (k-1)p) rows (none for page ceil(T/p)+1); two different      *)
(* pages share no Transaction and the earlier page holds nothing created   *)
(* before a Transaction of the later page: the pages concatenated are all  *)
(* T Transactions, each exactly once, in descending order.                 *)
(***************************************************************************)
C17_PagesPartition ==
    faults = 0 =>
        /\ \A h \in Handlers :
              Paging(h) =>
                  LET owned == OwnedBy(transactions, req[h].customer_id)
                  IN  /\ resp[h].status = 200
                      /\ PageIds(resp[h].rows) \subseteq {owned[i].id : i \in 1..Len(owned)}
                      /\ Len(resp[h].rows) = PageLen(Len(owned), resp[h].pageSize, resp[h].page)
                      /\ Cardinality(PageIds(resp[h].rows)) = Len(resp[h].rows)
                      /\ Descending(resp[h].rows)
        /\ \A h, g \in Handlers :
              (/\ Paging(h) /\ Paging(g)
               /\ Listed(h) /\ Listed(g)
               /\ req[h].customer_id = req[g].customer_id
               /\ resp[h].pageSize = resp[g].pageSize
               /\ resp[h].page < resp[g].page)
                  => /\ PageIds(resp[h].rows) \cap PageIds(resp[g].rows) = {}
                     /\ \A a \in PageIds(resp[h].rows), b \in PageIds(resp[g].rows) :
                           CreatedAt(a) >= CreatedAt(b)

\* The request names an existing customer, a page >= 1 and a page size >= 1 that fit
\* an int: GetTransactions accepts it.
Accepted(h) ==
    /\ pc[h] = "done"
    /\ req[h].op = "GetTransactions"
    /\ req[h].customer_id \in DOMAIN customers
    /\ ~SscanfErr(req[h].page) /\ QueryInt(req[h].page, DefaultPage) >= 1
    /\ ~SscanfErr(req[h].page_size) /\ QueryInt(req[h].page_size, DefaultPageSize) >= 1

(***************************************************************************)
(* C18.  For every page >= 1 and page size >= 1 that GetTransactions       *)
(* accepts, the call succeeds, the rows returned are those from offset     *)
(* (page-1)*pageSize on (min(pageSize, T - offset) of them, none beyond    *)
(* the data), X-Total-Pages is ceil(totalCount / pageSize), X-Page and     *)
(* X-Page-Size are the requested values and X-Total-Count is the number of *)
(* Transactions the customer owns.                                         *)
(***************************************************************************)
C18_PaginationArithmetic ==
    \A h \in Handlers :
        (faults = 0 /\ Accepted(h)) =>
            LET page == QueryInt(req[h].page, DefaultPage)
                pageSize == QueryInt(req[h].page_size, DefaultPageSize)
                T == Len(OwnedBy(transactions, req[h].customer_id))
            IN  /\ resp[h].status = 200
                /\ Len(resp[h].rows) = PageLen(T, pageSize, page)
                /\ resp[h].totalPages = Ceil(T, pageSize)
                /\ resp[h].page = page
                /\ resp[h].pageSize = pageSize
                /\ resp[h].totalCount = T

\* The step is a whole GetTransactions call of handler h that ends in its first part.
ListsAtOnce(h) ==
    pc[h] = "idle" /\ pc'[h] = "done" /\ req'[h].op = "GetTransactions"

\* The page or the page size of the request is below 1.
BadPaging(r) ==
    QueryInt(r.page, DefaultPage) < 1 \/ QueryInt(r.page_size, DefaultPageSize) < 1

(***************************************************************************)
(* C19.  GetTransactions with page < 1 or page size < 1 answers 400 and    *)
(* leaves the store as it was; with a valid page and page size and a       *)
(* customer id that matches no customer it answers 404; neither response   *)
(* carries Transactions.                                                   *)
(***************************************************************************)
C19_ListRejects ==
    [][\A h \in Handlers :
          (ListsAtOnce(h) /\ faults' = 0) =>
              /\ BadPaging(req'[h])
                    => /\ resp'[h].status = 400
                       /\ resp'[h].rows = <<>>
                       /\ UNCHANGED storeVars
              /\ (~BadPaging(req'[h]) /\ req'[h].customer_id \notin DOMAIN txCustomers)
                    => /\ resp'[h].status = 404
                       /\ resp'[h].rows = <<>>]_vars

\* The step is a whole CreateCustomer call of handler h with a name, an
\* initial_balance >= 0 and no balance field.
CreatesAccount(h) ==
    /\ pc[h] = "idle" /\ pc'[h] = "done"
    /\ req'[h].op = "CreateCustomer"
    /\ req'[h].name # ""
    /\ req'[h].initial_balance >= 0
    /\ req'[h].balance = 0

(***************************************************************************)
(* C20.  CreateCustomer with a non-empty name and an initial_balance >= 0  *)
(* answers 201 with an id no customer has and with the given balance, and  *)
(* stores exactly that customer: the other customers and all Transactions  *)
(* stay as they were, and once every request has returned each customer a  *)
(* call answered 201 for is in the committed table.                        *)
(***************************************************************************)
C20_CreatesOneCustomer ==
    [][/\ \A h \in Handlers :
             (CreatesAccount(h) /\ faults' = 0) =>
                 LET id == resp'[h].id
                 IN  /\ resp'[h].status = 201
                     /\ id \notin DOMAIN customers \cup DOMAIN txCustomers
                     /\ resp'[h].balance = req'[h].initial_balance
                     /\ DOMAIN txCustomers' = DOMAIN txCustomers \cup {id}
                     /\ txCustomers'[id] = [name |-> req'[h].name,
                                            balance |-> req'[h].initial_balance]
                     /\ \A c \in DOMAIN txCustomers : txCustomers'[c] = txCustomers[c]
                     /\ txTransactions' = txTransactions
                     /\ transactions' = transactions
       /\ (Quiescent' /\ faults' = 0) => DOMAIN opening' \subseteq DOMAIN customers']_vars

\* The step is a whole CreateCustomer call of handler h.
CreatesCustomer(h) ==
    pc[h] = "idle" /\ pc'[h] = "done" /\ req'[h].op = "CreateCustomer"

(***************************************************************************)
(* C21.  CreateCustomer with an empty or missing name, or with a negative  *)
(* initial_balance, answers 400 without a statement on the connection: the *)
(* tables, the session and the connection are as before, no id is          *)
(* generated and no customer is stored.                                    *)
(***************************************************************************)
C21_InvalidAccountRejected ==
    [][\A h \in Handlers :
          (CreatesCustomer(h) /\ (req'[h].name = "" \/ req'[h].initial_balance < 0)) =>
              /\ resp'[h].status = 400
              /\ UNCHANGED <<storeVars, nextCust, faults, opening>>]_vars

\* A CreateCustomer request with a negative initial_balance and a positive balance
\* field has been answered while another request's transaction is open.
C21_Witness ==
    \E h \in Handlers :
        /\ pc[h] = "done"
        /\ req[h].op = "CreateCustomer"
        /\ req[h].initial_balance < 0
        /\ req[h].balance > 0
        /\ resp[h].status = 400
        /\ txStatus = "T"

\* The step is a whole GetBalance call of handler h, with no fault of the connection so far.
ReadsBalance(h) ==
    pc[h] = "idle" /\ pc'[h] = "done" /\ req'[h].op = "GetBalance" /\ faults' = 0

(***************************************************************************)
(* C22.  GET /customers/:customer_id/balance with a well-formed id that    *)
(* matches no customer answers 404.                                        *)
(***************************************************************************)
C22_UnknownBalanceNotFound ==
    [][\A h \in Handlers :
          (/\ ReadsBalance(h)
           /\ req'[h].customer_id \notin DOMAIN customers \cup DOMAIN txCustomers)
              => resp'[h].status = 404]_vars

(***************************************************************************)
(* C23.  GET /customers/:customer_id/balance of an existing customer with  *)
(* no currency parameter, while no transaction is open, answers 200 with   *)
(* the customer's id and its stored balance.                               *)
(***************************************************************************)
C23_BalanceReturned ==
    [][\A h \in Handlers :
          (/\ ReadsBalance(h)
           /\ req'[h].currency = ""
           /\ txStatus = "I"
           /\ req'[h].customer_id \in DOMAIN customers)
              => /\ resp'[h].status = 200
                 /\ resp'[h].id = req'[h].customer_id
                 /\ resp'[h].balance = customers[req'[h].customer_id].balance]_vars

\* The step is a statement or a whole call of handler h serving GetBalance or
\* GetTransactions.
Reads(h) ==
    /\ pc'[h] # pc[h]
    /\ pc'[h] # "idle"
    /\ req'[h].op \in {"GetBalance", "GetTransactions"}

(***************************************************************************)
(* C24.  GetBalance and GetTransactions are read-only: whatever they       *)
(* answer, no step of theirs changes a committed customer or Transaction,  *)
(* and unless the connection breaks in that step the rows the session's    *)
(* open transaction has written stay as they were too; no balance is       *)
(* replaced by a converted amount.                                         *)
(***************************************************************************)
C24_ReadsChangeNothing ==
    [][\A h \in Handlers :
          Reads(h) =>
              /\ UNCHANGED <<customers, transactions>>
              /\ connClosed' = connClosed
                    => UNCHANGED <<txCustomers, txTransactions, txStatus, rowLocks>>]_vars

\* A GetTransactions call has listed a customer's Transactions while the session's
\* transaction holds writes not yet committed.
C24_Witness ==
    \E h \in Handlers :
        /\ Listed(h)
        /\ resp[h].rows # <<>>
        /\ txStatus = "T"
        /\ txTransactions # transactions

\* Journal a is the beginning of journal b: every row of a is in b, at its place and
\* with every column as it was.
IsPrefix(a, b) == Len(a) <= Len(b) /\ SubSeq(b, 1, Len(a)) = a

(***************************************************************************)
(* C25.  The journal is append-only: a step of any operation leaves every  *)
(* committed Transaction in place with its id, customer, type, amount and  *)
(* created_at, and the committed journal only grows; the rows of the       *)
(* session's transaction are only added to, or dropped back to the         *)
(* committed journal by a rollback.                                        *)
(***************************************************************************)
C25_JournalAppendOnly ==
    [][/\ IsPrefix(transactions, transactions')
       /\ IsPrefix(txTransactions, txTransactions') \/ txTransactions' = transactions']_vars

\* Two Transactions are committed, the second by a later call than the first, and a
\* further call has failed since.
C25_Witness ==
    /\ Len(transactions) >= 2
    /\ transactions[1].created_at < transactions[2].created_at
    /\ \E h \in Handlers : pc[h] = "done" /\ resp[h].status >= 400

\* Every row of the journal is owned by a customer of the table.
References(txns, cust) == \A i \in 1..Len(txns) : txns[i].customer_id \in DOMAIN cust

(***************************************************************************)
(* C26.  In every reachable state the customer_id of every Transaction is  *)
(* the id of an existing customer, in the committed tables and in the      *)
(* tables as the session sees them; no Transaction carries an id no        *)
(* CreateCustomer call generated, or uuid.Nil.                             *)
(***************************************************************************)
C26_TransactionsReferenceCustomers ==
    /\ References(transactions, customers)
    /\ References(txTransactions, txCustomers)
    /\ \A i \in 1..Len(txTransactions) : txTransactions[i].customer_id \in 1..nextCust

\* An Apply that named an id no customer has was answered 404 while the journal holds
\* a Transaction.
C26_Witness ==
    /\ Len(transactions) >= 1
    /\ \E h \in Handlers :
          /\ pc[h] = "done"
          /\ Applying(h)
          /\ req[h].customer_id \notin DOMAIN customers
          /\ resp[h].status = 404

\* @Param page_size ... minimum(1) maximum(100)
MaxPageSize == 100

(***************************************************************************)
(* C27.  GetTransactions accepts a page_size from 1 to 100: a request with *)
(* a page_size above 100 is answered 400 and returns no Transactions.      *)
(***************************************************************************)
C27_PageSizeAtMost100 ==
    \A h \in Handlers :
        (/\ pc[h] = "done"
         /\ req[h].op = "GetTransactions"
         /\ req[h].page_size > MaxPageSize)
            => resp[h].status = 400 /\ resp[h].rows = <<>>

\* The statements of CreateTransaction in the order of the source: what the handler
\* issues next after Begin, the locked read, the update, the insert and Commit.
ApplyOrder ==
    {<<"idle", "ct_read">>, <<"ct_read", "ct_update">>, <<"ct_update", "ct_insert">>,
     <<"ct_insert", "ct_commit">>, <<"ct_commit", "ct_defer">>}

\* The ways out of CreateTransaction before its Commit: a response, then the deferred
\* Rollback where it was scheduled.
ApplyExits ==
    {<<"idle", "done">>, <<"ct_read", "ct_defer">>, <<"ct_update", "ct_defer">>,
     <<"ct_insert", "ct_defer">>, <<"ct_defer", "done">>}

(***************************************************************************)
(* C28.  A CreateTransaction call issues its statements in the order       *)
(* Begin, locked read of the balance, update of the balance, insert of the *)
(* Transaction, Commit, each at most once, and every one of them before it *)
(* answers 201; the 201 is written in the step of the Commit, and only     *)
(* when the Commit reached the store, the store accepted it and the        *)
(* session's writes are the committed tables.                              *)
(***************************************************************************)
C28_ApplyStepsInOrder ==
    [][\A h \in Handlers :
          (pc'[h] # pc[h] /\ pc'[h] # "idle" /\ req'[h].op = "CreateTransaction") =>
              /\ <<pc[h], pc'[h]>> \in ApplyOrder \cup ApplyExits
              /\ resp'[h].status = 201 => pc'[h] \in {"ct_defer", "done"}
              /\ (resp'[h].status = 201 /\ resp[h].status # 201) =>
                    /\ pc[h] = "ct_commit"
                    /\ faults' = faults
                    /\ ~local[h].cancelled
                    /\ ~connClosed'
                    /\ txStatus # "E"
                    /\ txStatus' = "I"
                    /\ customers' = txCustomers
                    /\ transactions' = txTransactions]_vars

\* An Apply has answered 201 and returned.
C28_Witness ==
    \E h \in Handlers :
        /\ pc[h] = "done"
        /\ Applying(h)
        /\ resp[h].status = 201
        /\ local[h].txClosed

\* Handler h is inside CreateTransaction, its unit of work begun.
InFlight(h) == pc[h] \in {"ct_read", "ct_update", "ct_insert", "ct_commit", "ct_defer"}

(***************************************************************************)
(* C29.  With handlers that keep being scheduled and a store that answers  *)
(* every statement, every CreateTransaction call that has begun returns,   *)
(* after its Commit or its Rollback; an Apply on a customer whose row is   *)
(* locked goes on too, and once every call has returned no transaction is  *)
(* open and no row is locked.                                              *)
(***************************************************************************)
C29_EveryApplyFinishes ==
    /\ \A h \in Handlers : InFlight(h) ~> (pc[h] = "done")
    /\ [](Quiescent => txStatus = "I" /\ rowLocks = {})

\* An Apply is about to read the balance of a customer whose row another Apply in
\* flight has locked.
C29_Witness ==
    \E h, g \in Handlers :
        /\ h # g
        /\ pc[h] = "ct_read"
        /\ HoldsBalance(g)
        /\ req[h].customer_id = req[g].customer_id
        /\ req[h].customer_id \in rowLocks

\* The step is the deferred Rollback of handler h after its Commit succeeded.
RollsBackAfterCommit(h) ==
    pc[h] = "ct_defer" /\ pc'[h] = "done" /\ resp[h].status = 201

(***************************************************************************)
(* C30.  The Rollback that CreateTransaction defers runs also after a      *)
(* successful Commit, and then it undoes nothing: the committed tables     *)
(* with the balance and the Transaction of that call, the writes of a      *)
(* transaction another call has open, the row locks and the connection are *)
(* as before.                                                              *)
(***************************************************************************)
C30_RollbackAfterCommitIsNoOp ==
    [][\A h \in Handlers : RollsBackAfterCommit(h) => UNCHANGED <<storeVars, faults>>]_vars

\* An Apply has answered 201 and run its deferred Rollback while the transaction of
\* another Apply holds writes not yet committed.
C30_Witness ==
    \E h, g \in Handlers :
        /\ h # g
        /\ pc[h] = "done"
        /\ Applying(h)
        /\ resp[h].status = 201
        /\ HoldsBalance(g)
        /\ txStatus = "T"
        /\ txTransactions # transactions

\* The step is the Commit of handler h after which it answers 201.
AnswersSuccess(h) ==
    /\ req'[h].op = "CreateTransaction"
    /\ resp[h].status # 201
    /\ resp'[h].status = 201

(***************************************************************************)
(* C31.  The balance a successful CreateTransaction returns is the         *)
(* customer's stored balance right after its Commit, for every amount > 0  *)
(* the call accepts, amounts of a fraction of a cent included.             *)
(***************************************************************************)
C31_ReturnedBalanceIsStored ==
    [][\A h \in Handlers :
          AnswersSuccess(h) =>
              /\ req'[h].customer_id \in DOMAIN customers'
              /\ resp'[h].balance = customers'[req'[h].customer_id].balance]_vars

(***************************************************************************)
(* C32.  In every GetTransactions response, also when CreateTransaction    *)
(* calls on the same customer commit while the listing runs, X-Total-Count *)
(* and the page belong to one state of the journal: the number of rows     *)
(* returned is min(pageSize, max(0, totalCount - offset)) (no call on the  *)
(* connection having failed).                                              *)
(***************************************************************************)
C32_CountMatchesPage ==
    \A h \in Handlers :
        (Listed(h) /\ faults = 0) =>
            Len(resp[h].rows) = PageLen(resp[h].totalCount, resp[h].pageSize, resp[h].page)

\* The opening balance the request asks for: initial_balance if the body carries it,
\* the balance field otherwise.
RequestedBalance(r) == IF r.has_initial_balance THEN r.initial_balance ELSE r.balance

(***************************************************************************)
(* C34.  CreateCustomer takes the opening balance from initial_balance if  *)
(* the body carries it, an explicit 0 included and whatever the balance    *)
(* field holds, and from the balance field otherwise; a negative opening   *)
(* balance is answered 400, and any other is stored and returned with 201  *)
(* (outside a failed transaction, no call on the connection having         *)
(* failed).                                                                *)
(***************************************************************************)
C34_OpeningBalanceSource ==
    [][\A h \in Handlers :
          (CreatesCustomer(h) /\ req'[h].name # "" /\ txStatus # "E" /\ faults' = 0) =>
              IF RequestedBalance(req'[h]) < 0
              THEN resp'[h].status = 400
              ELSE /\ resp'[h].status = 201
                   /\ resp'[h].balance = RequestedBalance(req'[h])
                   /\ resp'[h].id \in DOMAIN txCustomers'
                   /\ txCustomers'[resp'[h].id].balance = RequestedBalance(req'[h])]_vars
=============================================================================
